---------------------------- MODULE Spec2Model ----------------------------
(***************************************************************************)
(* CameraManager (src/camera_manager.py) as a state machine.               *)
(*                                                                         *)
(* Actors: the capture thread "T" (CameraManager._camera_thread) and the   *)
(* caller threads (the pygame main loop of src/main.py and the Flask       *)
(* request handlers of src/web_camera.py) that invoke the public methods.  *)
(* One action is one atomic step of one actor; a step reads or writes the  *)
(* shared fields at most once where another actor can interleave.          *)
(***************************************************************************)
EXTENDS Integers, Sequences, FiniteSets, TLC

\* ------------------------------------------------------------------ bounds
\* successful backend reads the capture thread may perform
MaxFrames == 2
\* public-method calls the main thread may start
MaxMainCalls == 2
\* public-method calls the web handler thread may start
MaxWebCalls == 1
\* distinct clock seconds time.strftime may report
MaxClock == 2

\* --------------------------------------------------------------- constants
\* camera objects _init_webcam may construct: VideoCapture(0), VideoCapture(1)
MaxHandles == 2

Callers == {"main", "web"}
Actors == {"T"} \cup Callers
Handles == 1..MaxHandles
\* Python's None for an object reference / a file name
None == 0
\* Python's None for self.error
NoError == "None"
PiCamera == "Raspberry Pi Camera"
Webcam == "Webcam"
Unknown == "Unknown"
Free == "free"

VARIABLES
    \* module-level flags: IS_RASPBERRY_PI and picamera2_available
    usePi,
    \* CameraManager fields
    connected, error, frame, camera, camera_type,
    is_recording, recording_filename, encoder, running,
    recording_lock, frame_lock,
    \* backend objects: state of each camera object and the close()/release()
    \* calls issued on it
    hstate, closes,
    \* frame arrays: heap[id] is the pixel content (two halves) of array id
    heap, captured,
    \* per-actor control state
    pc, ctype, rd, contT, frame_data,
    \* caller locals: nesting context, calls started, value being returned
    ctx, calls, ret,
    \* history (observers of the run, never read by the program)
    openAttempts, opensAtFail, initFailed, published, cleanupReturned,
    opensAfterCleanup, threadFailed

prog == <<usePi, connected, error, frame, camera, camera_type, is_recording,
          recording_filename, encoder, running, recording_lock, frame_lock>>
backend == <<hstate, closes>>
frames == <<heap, captured>>
control == <<pc, ctype, rd, contT, frame_data>>
callerv == <<ctx, calls, ret>>
\* the history a backend failure handled by the capture thread leaves alone
histx == <<openAttempts, opensAtFail, initFailed, published, cleanupReturned,
           opensAfterCleanup>>
hist == <<histx, threadFailed>>
vars == <<prog, backend, frames, control, callerv, hist>>

\* the value a caller holds before any method has returned to it; prev is the
\* capture sequence number of the frame its last get_frame() gave it
NoRet == [op |-> "none", ok |-> FALSE, msg |-> "", file |-> None,
          fr |-> <<0, 0>>, isNone |-> FALSE, prev |-> 0,
          st |-> [connected |-> FALSE, camera_type |-> Unknown,
                  error |-> NoError, is_recording |-> FALSE,
                  filename |-> None]]

\* the frame buffer starts with a blank placeholder array
InitialFrameBlank == MaxFrames

\* line 50: self.frame = None
InitialFrame == None

\* CameraManager.__init__
Init ==
    /\ usePi \in BOOLEAN
    /\ connected = FALSE
    /\ error = NoError
    /\ frame = InitialFrame
    /\ camera = None
    /\ camera_type = Unknown
    /\ is_recording = FALSE
    /\ recording_filename = None
    /\ encoder = FALSE
    /\ running = TRUE
    /\ recording_lock = Free
    /\ frame_lock = Free
    /\ hstate = [h \in Handles |-> "unalloc"]
    /\ closes = [h \in Handles |-> 0]
    /\ heap = [i \in 1..MaxFrames |-> <<0, 0>>]
    /\ captured = 0
    /\ pc = [a \in Actors |-> IF a = "T" THEN "t_start" ELSE "idle"]
    /\ ctype = [a \in Actors |-> Unknown]
    /\ rd = [a \in Actors |-> None]
    /\ contT = "none"
    /\ frame_data = None
    /\ ctx = [c \in Callers |-> "none"]
    /\ calls = [c \in Callers |-> 0]
    /\ ret = [c \in Callers |-> NoRet]
    /\ openAttempts = 0
    /\ opensAtFail = -1
    /\ initFailed = FALSE
    /\ published = {}
    /\ cleanupReturned = FALSE
    /\ opensAfterCleanup = 0
    /\ threadFailed = FALSE

Goto(a, l) == pc' = [pc EXCEPT ![a] = l]

\* the first camera object not yet constructed
NewHandle == CHOOSE h \in Handles : hstate[h] = "unalloc" /\
                 \A g \in Handles : g < h => hstate[g] # "unalloc"
CanAlloc == \E h \in Handles : hstate[h] = "unalloc"

\* a backend constructor was called: counted, and noted when cleanup() had
\* already returned
NoteOpen ==
    /\ openAttempts' = openAttempts + 1
    /\ opensAfterCleanup' = IF cleanupReturned THEN opensAfterCleanup + 1
                            ELSE opensAfterCleanup

\* --------------------------------------------------- _cleanup_camera_object
\* where an actor continues after _cleanup_camera_object returns
CleanupCont(a) == IF a = "T" THEN contT ELSE "cu_ret"

\* line 420-421: if self.camera: camera_type_to_clean = self.camera_type
ClkCheck(a) ==
    /\ pc[a] = "clk_check"
    /\ IF camera # None
          THEN /\ ctype' = [ctype EXCEPT ![a] = camera_type]
               /\ Goto(a, "clk_close")
          ELSE /\ Goto(a, CleanupCont(a))
               /\ UNCHANGED ctype
    /\ UNCHANGED <<prog, backend, frames, rd, contT, frame_data, callerv, hist>>

\* whether lines 424-428 issue close()/release() for the stored type
IssuesClose(t) == (t = PiCamera /\ usePi) \/ t = Webcam

\* the backend's close()/release(): the device is released
CloseHandle(hs, h) == [hs EXCEPT ![h] = IF @ = "open" THEN "closed" ELSE @]

\* line 423-431: self.camera.close() / self.camera.release(); self.camera is
\* read again, and an AttributeError on None is swallowed by the except
ClkClose(a) ==
    /\ pc[a] = "clk_close"
    /\ IF camera # None /\ IssuesClose(ctype[a])
          THEN /\ hstate' = CloseHandle(hstate, camera)
               /\ closes' = [closes EXCEPT ![camera] = @ + 1]
          ELSE UNCHANGED <<hstate, closes>>
    /\ Goto(a, "clk_clear")
    /\ UNCHANGED <<prog, frames, ctype, rd, contT, frame_data, callerv, hist>>

\* line 432-439: finally: self.camera = None (then gc.collect and the sleep)
ClkClear(a) ==
    /\ pc[a] = "clk_clear"
    /\ camera' = None
    /\ Goto(a, CleanupCont(a))
    /\ UNCHANGED <<usePi, connected, error, frame, camera_type, is_recording,
                   recording_filename, encoder, running, recording_lock,
                   frame_lock, backend, frames, ctype, rd, contT, frame_data,
                   callerv, hist>>

CleanupCameraObject(a) == ClkCheck(a) \/ ClkClose(a) \/ ClkClear(a)

\* ------------------------------------------------------------ _camera_thread
\* the thread cleans up and starts initialisation again
ReconnectAfterLoop ==
    /\ contT' = "t_start"
    /\ Goto("T", "clk_check")

\* the thread leaves for its final cleanup: lines 158-159
ToTeardown ==
    /\ contT' = "td_conn"
    /\ Goto("T", "clk_check")

\* line 78-91: use_pi_camera = IS_RASPBERRY_PI and picamera2_available;
\* _init_pi_camera starts with _cleanup_camera_object (line 171)
TStart ==
    /\ pc["T"] = "t_start"
    /\ IF usePi
          THEN /\ contT' = "pi_new"
               /\ Goto("T", "clk_check")
          ELSE /\ Goto("T", "wc_open0")
               /\ UNCHANGED contT
    /\ UNCHANGED <<prog, backend, frames, ctype, rd, frame_data, callerv, hist>>

\* line 172: self.camera = Picamera2(); the constructor may raise
PiNew ==
    /\ pc["T"] = "pi_new"
    /\ CanAlloc
    /\ NoteOpen
    /\ \E ok \in BOOLEAN :
          IF ok
             THEN /\ hstate' = [hstate EXCEPT ![NewHandle] = "open"]
                  /\ camera' = NewHandle
                  /\ Goto("T", "pi_config")
             ELSE /\ Goto("T", "pi_exc")
                  /\ UNCHANGED <<hstate, camera>>
    /\ UNCHANGED <<usePi, connected, error, frame, camera_type, is_recording,
                   recording_filename, encoder, running, recording_lock,
                   frame_lock, closes, frames, ctype, rd, contT, frame_data,
                   callerv, opensAtFail, initFailed, published,
                   cleanupReturned, threadFailed>>

\* line 178-199: create_video_configuration, configure, start on self.camera;
\* any of them may raise, and self.camera may have been set to None
PiConfig ==
    /\ pc["T"] = "pi_config"
    /\ \E ok \in BOOLEAN :
          IF camera # None /\ ok
             THEN Goto("T", "pi_conn")
             ELSE Goto("T", "pi_exc")
    /\ UNCHANGED <<prog, backend, frames, ctype, rd, contT, frame_data,
                   callerv, hist>>

\* line 202-203: self.connected = True; self.error = None
PiConn ==
    /\ pc["T"] = "pi_conn"
    /\ connected' = TRUE
    /\ error' = NoError
    /\ Goto("T", "pi_type")
    /\ UNCHANGED <<usePi, frame, camera, camera_type, is_recording,
                   recording_filename, encoder, running, recording_lock,
                   frame_lock, backend, frames, ctype, rd, contT, frame_data,
                   callerv, hist>>

\* line 204: self.camera_type = "Raspberry Pi Camera"
PiType ==
    /\ pc["T"] = "pi_type"
    /\ camera_type' = PiCamera
    /\ Goto("T", "init_end")
    /\ UNCHANGED <<usePi, connected, error, frame, camera, is_recording,
                   recording_filename, encoder, running, recording_lock,
                   frame_lock, backend, frames, ctype, rd, contT, frame_data,
                   callerv, hist>>

\* line 207-213: except: self.error = ...; self.connected = False;
\* self._cleanup_camera_object()
PiExc ==
    /\ pc["T"] = "pi_exc"
    /\ error' = "Pi camera initialization error"
    /\ connected' = FALSE
    /\ threadFailed' = TRUE
    /\ contT' = "init_end"
    /\ Goto("T", "clk_check")
    /\ UNCHANGED <<usePi, frame, camera, camera_type, is_recording,
                   recording_filename, encoder, running, recording_lock,
                   frame_lock, backend, frames, ctype, rd, frame_data,
                   callerv, histx>>

\* cv2.VideoCapture(index): a new camera object, opened or not
WcOpen(from, to) ==
    /\ pc["T"] = from
    /\ CanAlloc
    /\ NoteOpen
    /\ \E opened \in BOOLEAN :
          hstate' = [hstate EXCEPT ![NewHandle] =
                        IF opened THEN "open" ELSE "unopened"]
    /\ camera' = NewHandle
    /\ Goto("T", to)
    /\ UNCHANGED <<usePi, connected, error, frame, camera_type, is_recording,
                   recording_filename, encoder, running, recording_lock,
                   frame_lock, closes, frames, ctype, rd, contT, frame_data,
                   callerv, opensAtFail, initFailed, published,
                   cleanupReturned, threadFailed>>

\* line 219: self.camera = cv2.VideoCapture(0)
WcOpen0 == WcOpen("wc_open0", "wc_check0")

\* index 1 is probed whatever index 0 did, without releasing index 0
WebcamProbeBoth(opened) == "wc_open1"

\* line 220-230: where _init_webcam goes after VideoCapture(0)
WebcamAfterOpen0(opened) == IF opened THEN "wc_test" ELSE "wc_rel0"

\* line 220: if not self.camera.isOpened()
WcCheck0 ==
    /\ pc["T"] = "wc_check0"
    /\ IF camera = None
          THEN Goto("T", "wc_exc")
          ELSE Goto("T", WebcamAfterOpen0(hstate[camera] = "open"))
    /\ UNCHANGED <<prog, backend, frames, ctype, rd, contT, frame_data,
                   callerv, hist>>

\* line 223: self.camera.release()  (the failed attempt)
WcRel0 ==
    /\ pc["T"] = "wc_rel0"
    /\ IF camera = None
          THEN /\ Goto("T", "wc_exc")
               /\ UNCHANGED <<hstate, closes>>
          ELSE /\ hstate' = CloseHandle(hstate, camera)
               /\ closes' = [closes EXCEPT ![camera] = @ + 1]
               /\ Goto("T", "wc_open1")
    /\ UNCHANGED <<prog, frames, ctype, rd, contT, frame_data, callerv, hist>>

\* line 224: self.camera = cv2.VideoCapture(1)
WcOpen1 == WcOpen("wc_open1", "wc_check1")

\* line 225-226: if not self.camera.isOpened(): raise IOError
WcCheck1 ==
    /\ pc["T"] = "wc_check1"
    /\ IF camera # None /\ hstate[camera] = "open"
          THEN Goto("T", "wc_test")
          ELSE Goto("T", "wc_exc")
    /\ UNCHANGED <<prog, backend, frames, ctype, rd, contT, frame_data,
                   callerv, hist>>

\* a failed test read releases the index and probes the next one
TestReadFailureProbesNext == "wc_rel0"

\* line 238-248: if not test_ret: ... raise IOError(...)
TestReadFailure == "wc_exc"

\* line 234-248: sleep, then test_ret, _ = self.camera.read(); raise IOError
\* when the read fails
WcTest ==
    /\ pc["T"] = "wc_test"
    /\ \E test_ret \in BOOLEAN :
          IF camera # None /\ hstate[camera] = "open" /\ test_ret
             THEN Goto("T", "wc_conn")
             ELSE Goto("T", TestReadFailure)
    /\ UNCHANGED <<prog, backend, frames, ctype, rd, contT, frame_data,
                   callerv, hist>>

\* line 253-262: self.camera.set(...) twice; self.connected = True;
\* self.error = None
WcConn ==
    /\ pc["T"] = "wc_conn"
    /\ IF camera = None
          THEN /\ Goto("T", "wc_exc")
               /\ UNCHANGED <<connected, error>>
          ELSE /\ connected' = TRUE
               /\ error' = NoError
               /\ Goto("T", "wc_type")
    /\ UNCHANGED <<usePi, frame, camera, camera_type, is_recording,
                   recording_filename, encoder, running, recording_lock,
                   frame_lock, backend, frames, ctype, rd, contT, frame_data,
                   callerv, hist>>

\* line 263: self.camera_type = "Webcam"
WcType ==
    /\ pc["T"] = "wc_type"
    /\ camera_type' = Webcam
    /\ Goto("T", "init_end")
    /\ UNCHANGED <<usePi, connected, error, frame, camera, is_recording,
                   recording_filename, encoder, running, recording_lock,
                   frame_lock, backend, frames, ctype, rd, contT, frame_data,
                   callerv, hist>>

\* line 266-270: except: self.error = ...; self.connected = False;
\* if self.camera:
WcExc ==
    /\ pc["T"] = "wc_exc"
    /\ error' = "Webcam initialization error"
    /\ connected' = FALSE
    /\ threadFailed' = TRUE
    /\ Goto("T", IF camera # None THEN "wc_exc_rel" ELSE "wc_exc_clr")
    /\ UNCHANGED <<usePi, frame, camera, camera_type, is_recording,
                   recording_filename, encoder, running, recording_lock,
                   frame_lock, backend, frames, ctype, rd, contT, frame_data,
                   callerv, histx>>

\* line 270: self.camera.release(); on None the AttributeError leaves the
\* except clause and is caught at line 94
WcExcRel ==
    /\ pc["T"] = "wc_exc_rel"
    /\ IF camera = None
          THEN /\ Goto("T", "init_exc")
               /\ UNCHANGED <<hstate, closes>>
          ELSE /\ hstate' = CloseHandle(hstate, camera)
               /\ closes' = [closes EXCEPT ![camera] = @ + 1]
               /\ Goto("T", "wc_exc_clr")
    /\ UNCHANGED <<prog, frames, ctype, rd, contT, frame_data, callerv, hist>>

\* line 271: self.camera = None
WcExcClr ==
    /\ pc["T"] = "wc_exc_clr"
    /\ camera' = None
    /\ Goto("T", "init_end")
    /\ UNCHANGED <<usePi, connected, error, frame, camera_type, is_recording,
                   recording_filename, encoder, running, recording_lock,
                   frame_lock, backend, frames, ctype, rd, contT, frame_data,
                   callerv, hist>>

\* the thread starts initialisation over instead of returning
RetryAfterInitFailure == "t_start"

\* line 105: return, after the cleanup of line 104
AfterInitFailure == "done"

\* line 102-105: if not initialization_success: _cleanup_camera_object(); return
InitFailed ==
    /\ initFailed' = TRUE
    /\ threadFailed' = TRUE
    /\ contT' = AfterInitFailure
    /\ Goto("T", "clk_check")

\* line 94-99: except Exception: self.error = str(e); self.connected = False
InitExc ==
    /\ pc["T"] = "init_exc"
    /\ error' = "AttributeError"
    /\ connected' = FALSE
    /\ InitFailed
    /\ UNCHANGED <<usePi, frame, camera, camera_type, is_recording,
                   recording_filename, encoder, running, recording_lock,
                   frame_lock, backend, frames, ctype, rd, frame_data,
                   callerv, openAttempts, opensAtFail, published,
                   cleanupReturned, opensAfterCleanup>>

\* line 93 and 102: initialization_success = self.connected
InitEnd ==
    /\ pc["T"] = "init_end"
    /\ IF connected
          THEN /\ Goto("T", "loop")
               /\ UNCHANGED <<contT, initFailed, threadFailed>>
          ELSE InitFailed
    /\ UNCHANGED <<prog, backend, frames, ctype, rd, frame_data, callerv,
                   openAttempts, opensAtFail, published, cleanupReturned,
                   opensAfterCleanup>>

\* the loop test inverted
LoopContinuesInverted(r) == ~r

\* line 110: while self.running
LoopContinues(r) == r

\* line 110-115: the loop test and the safety check
Loop ==
    /\ pc["T"] = "loop"
    /\ IF ~LoopContinues(running)
          THEN /\ ToTeardown
               /\ UNCHANGED <<error, threadFailed>>
          ELSE IF ~connected \/ camera = None
                  THEN /\ error' = "Camera disconnected unexpectedly."
                       /\ threadFailed' = TRUE
                       /\ ToTeardown
                  ELSE /\ Goto("T", "cap_begin")
                       /\ UNCHANGED <<error, contT, threadFailed>>
    /\ UNCHANGED <<usePi, connected, frame, camera, camera_type, is_recording,
                   recording_filename, encoder, running, recording_lock,
                   frame_lock, backend, frames, ctype, rd, frame_data,
                   callerv, histx>>

\* the loop ends on a failed read without storing a message
ReadFailureErrorMissing == NoError

\* line 145: self.error = "Failed to capture lores frame."
ReadFailureError == "Failed to capture lores frame."

\* line 119 with 275-286: _capture_frame("lores") checks the connection and
\* issues the backend read on self.camera; a None result ends the loop
\* (line 143-146)
CapBegin ==
    /\ pc["T"] = "cap_begin"
    /\ IF ~connected \/ camera = None
          THEN /\ error' = ReadFailureError
               /\ threadFailed' = TRUE
               /\ ToTeardown
               /\ UNCHANGED rd
          ELSE /\ rd' = [rd EXCEPT !["T"] = camera]
               /\ Goto("T", "cap_end")
               /\ UNCHANGED <<error, contT, threadFailed>>
    /\ UNCHANGED <<usePi, connected, frame, camera, camera_type, is_recording,
                   recording_filename, encoder, running, recording_lock,
                   frame_lock, backend, frames, ctype, frame_data, callerv,
                   histx>>

\* the backend read fills one array it keeps for every call
ReusedBuf(n) == 1

\* the array a backend read returns: a new one on every call
FreshBuf(n) == n + 1

\* what the backend read in flight can produce: a frame, ret False (cv2
\* only), or an exception; a released device yields no frame
ReadOutcomes(h, t) ==
    (IF hstate[h] = "open" /\ captured < MaxFrames THEN {"frame"} ELSE {})
    \cup (IF t = Webcam THEN {"fail"} ELSE {})
    \cup {"throw"}

\* line 127: cv2.cvtColor of the lores YUV420 frame (Pi camera only)
ConvertOutcomes(t) == IF t = PiCamera THEN {"ok", "cv_err", "exc"} ELSE {"ok"}

\* line 281-298 and 121-155: the read returns; conversion; failure handling
CapEnd ==
    /\ pc["T"] = "cap_end"
    /\ \E out \in ReadOutcomes(rd["T"], camera_type) :
       \E conv \in ConvertOutcomes(camera_type) :
          CASE out = "frame" ->
                 /\ captured' = captured + 1
                 /\ heap' = [heap EXCEPT ![FreshBuf(captured)] =
                                <<captured + 1, captured + 1>>]
                 /\ frame_data' = FreshBuf(captured)
                 /\ CASE conv = "ok" ->
                           /\ Goto("T", "publish")
                           /\ UNCHANGED <<error, contT, threadFailed>>
                      [] conv = "cv_err" ->
                           /\ Goto("T", "loop")
                           /\ UNCHANGED <<error, contT, threadFailed>>
                      [] conv = "exc" ->
                           /\ error' = "Critical Camera Error"
                           /\ threadFailed' = TRUE
                           /\ ToTeardown
                 /\ UNCHANGED <<connected, opensAtFail>>
            [] out = "fail" ->
                 /\ conv = "ok"
                 /\ error' = ReadFailureError
                 /\ opensAtFail' = openAttempts
                 /\ threadFailed' = TRUE
                 /\ ToTeardown
                 /\ UNCHANGED <<connected, frames, frame_data>>
            [] out = "throw" ->
                 /\ conv = "ok"
                 /\ connected' = FALSE
                 /\ error' = ReadFailureError
                 /\ opensAtFail' = openAttempts
                 /\ threadFailed' = TRUE
                 /\ ToTeardown
                 /\ UNCHANGED <<frames, frame_data>>
    /\ UNCHANGED <<usePi, frame, camera, camera_type, is_recording,
                   recording_filename, encoder, running, recording_lock,
                   frame_lock, backend, ctype, rd, callerv, openAttempts,
                   initFailed, published, cleanupReturned, opensAfterCleanup>>

\* line 139-140: with self.frame_lock: self.frame = processed_frame
Publish ==
    /\ pc["T"] = "publish"
    /\ frame_lock = Free
    /\ frame' = frame_data
    /\ published' = published \cup {heap[frame_data]}
    /\ Goto("T", "pub_err")
    /\ UNCHANGED <<usePi, connected, error, camera, camera_type, is_recording,
                   recording_filename, encoder, running, recording_lock,
                   frame_lock, backend, frames, ctype, rd, contT, frame_data,
                   callerv, openAttempts, opensAtFail, initFailed,
                   cleanupReturned, opensAfterCleanup, threadFailed>>

\* line 141 and 148: self.error = None; time.sleep(...)
PubErr ==
    /\ pc["T"] = "pub_err"
    /\ error' = NoError
    /\ Goto("T", "loop")
    /\ UNCHANGED <<usePi, connected, frame, camera, camera_type, is_recording,
                   recording_filename, encoder, running, recording_lock,
                   frame_lock, backend, frames, ctype, rd, contT, frame_data,
                   callerv, hist>>

\* line 160 left out: the thread ends without clearing connected
TdConnSkipped ==
    /\ pc["T"] = "td_conn"
    /\ Goto("T", "done")
    /\ UNCHANGED <<prog, backend, frames, ctype, rd, contT, frame_data,
                   callerv, hist>>

\* the teardown empties the frame buffer
FrameClearedAtTeardown(f) == None

\* line 158-161: the teardown assigns nothing to self.frame
FrameAfterTeardown(f) == f

\* line 160: self.connected = False, after the cleanup of line 159
TdConn ==
    /\ pc["T"] = "td_conn"
    /\ connected' = FALSE
    /\ frame' = FrameAfterTeardown(frame)
    /\ Goto("T", "done")
    /\ UNCHANGED <<usePi, error, camera, camera_type, is_recording,
                   recording_filename, encoder, running, recording_lock,
                   frame_lock, backend, frames, ctype, rd, contT, frame_data,
                   callerv, hist>>

CameraThread ==
    \/ TStart \/ PiNew \/ PiConfig \/ PiConn \/ PiType \/ PiExc
    \/ WcOpen0 \/ WcCheck0 \/ WcRel0 \/ WcOpen1 \/ WcCheck1 \/ WcTest
    \/ WcConn \/ WcType \/ WcExc \/ WcExcRel \/ WcExcClr
    \/ InitExc \/ InitEnd \/ Loop \/ CapBegin \/ CapEnd \/ Publish \/ PubErr
    \/ TdConn \/ CleanupCameraObject("T")

\* ------------------------------------------------------------ public methods
Result(op, ok, msg, file) ==
    [NoRet EXCEPT !.op = op, !.ok = ok, !.msg = msg, !.file = file]

\* a method returns r to its caller
Return(c, r) ==
    /\ ret' = [ret EXCEPT ![c] = [r EXCEPT !.prev = ret[c].prev]]
    /\ Goto(c, "idle")

\* start_recording / stop_recording return r: to toggle_recording (whose
\* with-block then releases the lock, line 396-400), to cleanup (line 451,
\* result dropped) or to the caller; lockAfter is the lock as the callee
\* leaves it
RecReturn(c, r, lockAfter) ==
    CASE ctx[c] = "toggle" ->
           /\ recording_lock' = Free
           /\ ret' = [ret EXCEPT ![c] = [r EXCEPT !.op = "toggle_recording",
                                                  !.prev = ret[c].prev]]
           /\ ctx' = [ctx EXCEPT ![c] = "none"]
           /\ Goto(c, "idle")
      [] ctx[c] = "cleanup" ->
           /\ recording_lock' = lockAfter
           /\ Goto(c, "cu_join")
           /\ UNCHANGED <<ret, ctx>>
      [] OTHER ->
           /\ recording_lock' = lockAfter
           /\ Return(c, r)
           /\ UNCHANGED ctx

\* the exception leaves the method
Propagated(op, msg) == [NoRet EXCEPT !.op = "raised", !.msg = msg]

\* line 326-331 / 359-366 / 386-393: except Exception as e: ...
\* return False, error_msg
Caught(op, msg) == Result(op, FALSE, msg, None)

\* the guard without its test of the camera type
PiReadyAnyType == connected /\ camera # None

\* the guard without its test of the connection
PiReadyTypeOnly == camera_type = PiCamera

\* line 309 / 335 / 370: the guard shared by capture_still, start_recording
\* and stop_recording
PiReady == connected /\ camera # None /\ camera_type = PiCamera

\* the except clause marks the source disconnected, as _capture_frame does
DisconnectedAfterRecordingError(conn) == FALSE

\* line 359-366 / 386-393: the except clauses of start_recording and
\* stop_recording assign the session fields only; self.connected keeps its
\* value
ConnectedAfterRecordingError(conn) == conn

\* the file name is read after the session fields were cleared
RecordedFileAfterClear(f) == None

\* line 380: recorded_file = self.recording_filename, before line 382
RecordedFile(f) == f

\* the test of line 374 inverted
NotRecordingInverted(r) == r

\* line 374: if not self.is_recording
NotRecording(r) == ~r

\* get_frame keeps handing out the first array it ever copied
FirstFrameCached(f) == 1

\* line 305: self.frame, the array the buffer refers to at this moment
CurrentFrame(f) == f

\* get_frame, line 302-305: with self.frame_lock: None, or start the copy
GfAcq(c) ==
    /\ pc[c] = "gf_acq"
    /\ frame_lock = Free
    /\ IF frame = None
          THEN /\ Return(c, [NoRet EXCEPT !.op = "get_frame", !.isNone = TRUE])
               /\ UNCHANGED <<frame_lock, rd>>
          ELSE /\ frame_lock' = c
               /\ rd' = [rd EXCEPT ![c] = CurrentFrame(frame)]
               /\ ret' = [ret EXCEPT
                             ![c].fr = <<heap[CurrentFrame(frame)][1], 0>>]
               /\ Goto(c, "gf_copy")
    /\ UNCHANGED <<usePi, connected, error, frame, camera, camera_type,
                   is_recording, recording_filename, encoder, running,
                   recording_lock, backend, frames, ctype, contT, frame_data,
                   ctx, calls, hist>>

\* line 305: self.frame.copy() completes; the lock is released
GfCopy(c) ==
    /\ pc[c] = "gf_copy"
    /\ frame_lock' = Free
    /\ Return(c, [NoRet EXCEPT !.op = "get_frame", !.ok = TRUE,
                               !.fr = <<ret[c].fr[1], heap[rd[c]][2]>>])
    /\ UNCHANGED <<usePi, connected, error, frame, camera, camera_type,
                   is_recording, recording_filename, encoder, running,
                   recording_lock, backend, frames, ctype, rd, contT,
                   frame_data, ctx, calls, hist>>

\* capture_still, line 309-310
CsCheck(c) ==
    /\ pc[c] = "cs_check"
    /\ IF PiReady
          THEN /\ Goto(c, "cs_begin")
               /\ UNCHANGED ret
          ELSE Return(c, Result("capture_still", FALSE,
                  "Pi Camera not connected or available for full-res capture.",
                  None))
    /\ UNCHANGED <<prog, backend, frames, ctype, rd, contT, frame_data, ctx,
                   calls, hist>>

\* line 315 with 275-281: _capture_frame("main") checks the connection and
\* issues capture_array on self.camera
CsBegin(c) ==
    /\ pc[c] = "cs_begin"
    /\ IF ~connected \/ camera = None
          THEN /\ Return(c, Result("capture_still", FALSE,
                                   "Failed to capture main stream frame.", None))
               /\ UNCHANGED rd
          ELSE /\ rd' = [rd EXCEPT ![c] = camera]
               /\ Goto(c, "cs_end")
               /\ UNCHANGED ret
    /\ UNCHANGED <<prog, backend, frames, ctype, contT, frame_data, ctx,
                   calls, hist>>

\* line 281-298 and 316-331: capture_array returns or raises (the except of
\* _capture_frame stores the error and clears connected); cvtColor/imwrite
\* may raise; the file is named after the clock second
CsEnd(c) ==
    /\ pc[c] = "cs_end"
    /\ \/ /\ hstate[rd[c]] = "open"
          /\ \E t \in 1..MaxClock :
                Return(c, Result("capture_still", TRUE, "", t))
          /\ UNCHANGED <<connected, error>>
       \/ /\ hstate[rd[c]] = "open"
          /\ Return(c, Caught("capture_still",
                              "Failed to save full-res image"))
          /\ UNCHANGED <<connected, error>>
       \/ /\ error' = "Frame capture error"
          /\ connected' = FALSE
          /\ Return(c, Result("capture_still", FALSE,
                              "Failed to capture main stream frame.", None))
    /\ UNCHANGED <<usePi, frame, camera, camera_type, is_recording,
                   recording_filename, encoder, running, recording_lock,
                   frame_lock, backend, frames, ctype, rd, contT, frame_data,
                   ctx, calls, hist>>

\* start_recording, line 335-336
SrCheck(c) ==
    /\ pc[c] = "sr_check"
    /\ IF PiReady
          THEN /\ Goto(c, "sr_acq")
               /\ UNCHANGED <<recording_lock, ret, ctx>>
          ELSE RecReturn(c, Result("start_recording", FALSE,
                  "Pi Camera not connected or available for recording.", None),
                  recording_lock)
    /\ UNCHANGED <<usePi, connected, error, frame, camera, camera_type,
                   is_recording, recording_filename, encoder, running,
                   frame_lock, backend, frames, ctype, rd, contT, frame_data,
                   calls, hist>>

\* line 338-344: with self.recording_lock (not reentrant): "Already
\* recording.", or the file name is set from the clock second
SrAcq(c) ==
    /\ pc[c] = "sr_acq"
    /\ recording_lock = Free
    /\ IF is_recording
          THEN /\ RecReturn(c, Result("start_recording", FALSE,
                                      "Already recording.", None), Free)
               /\ UNCHANGED recording_filename
          ELSE /\ recording_lock' = c
               /\ \E t \in 1..MaxClock : recording_filename' = t
               /\ Goto(c, "sr_body")
               /\ UNCHANGED <<ret, ctx>>
    /\ UNCHANGED <<usePi, connected, error, frame, camera, camera_type,
                   is_recording, encoder, running, frame_lock, backend, frames,
                   ctype, rd, contT, frame_data, calls, hist>>

\* the except clause leaves the file name of the failed attempt in place
FilenameKeptAfterFailedStart(f) == f

\* line 364: self.recording_filename = None
FilenameAfterFailedStart(f) == None

\* line 346-366: H264Encoder(); self.camera.start_recording(...), which may
\* raise (and does on None or on a closed camera); the lock is released
SrBody(c) ==
    /\ pc[c] = "sr_body"
    /\ \E started \in BOOLEAN :
          IF started /\ camera # None /\ hstate[camera] = "open"
             THEN /\ encoder' = TRUE
                  /\ is_recording' = TRUE
                  /\ UNCHANGED <<recording_filename, connected>>
                  /\ RecReturn(c, Result("start_recording", TRUE, "",
                                         recording_filename), Free)
             ELSE /\ recording_filename' = FilenameAfterFailedStart(
                                              recording_filename)
                  /\ encoder' = FALSE
                  /\ connected' = ConnectedAfterRecordingError(connected)
                  /\ UNCHANGED is_recording
                  /\ RecReturn(c, Caught("start_recording",
                                         "Failed to start H.264 recording"),
                               Free)
    /\ UNCHANGED <<usePi, error, frame, camera, camera_type,
                   running, frame_lock, backend, frames, ctype, rd, contT,
                   frame_data, calls, hist>>

\* stop_recording, line 370-371
StCheck(c) ==
    /\ pc[c] = "st_check"
    /\ IF PiReady
          THEN /\ Goto(c, "st_acq")
               /\ UNCHANGED <<recording_lock, ret, ctx>>
          ELSE RecReturn(c, Result("stop_recording", FALSE,
                  "Pi Camera not available to stop recording.", None),
                  recording_lock)
    /\ UNCHANGED <<usePi, connected, error, frame, camera, camera_type,
                   is_recording, recording_filename, encoder, running,
                   frame_lock, backend, frames, ctype, rd, contT, frame_data,
                   calls, hist>>

\* line 373-375: with self.recording_lock: "Not currently recording."
StAcq(c) ==
    /\ pc[c] = "st_acq"
    /\ recording_lock = Free
    /\ IF NotRecording(is_recording)
          THEN RecReturn(c, Result("stop_recording", FALSE,
                                   "Not currently recording.", None), Free)
          ELSE /\ recording_lock' = c
               /\ Goto(c, "st_body")
               /\ UNCHANGED <<ret, ctx>>
    /\ UNCHANGED <<usePi, connected, error, frame, camera, camera_type,
                   is_recording, recording_filename, encoder, running,
                   frame_lock, backend, frames, ctype, rd, contT, frame_data,
                   calls, hist>>

\* line 377-393: self.camera.stop_recording() returns or raises; either way
\* the session fields are cleared and the lock is released
StBody(c) ==
    /\ pc[c] = "st_body"
    /\ is_recording' = FALSE
    /\ recording_filename' = None
    /\ encoder' = FALSE
    /\ \E stopped \in BOOLEAN :
          IF stopped /\ camera # None
             THEN /\ RecReturn(c, Result("stop_recording", TRUE, "",
                                         RecordedFile(recording_filename)),
                               Free)
                  /\ UNCHANGED connected
             ELSE /\ RecReturn(c, Caught("stop_recording",
                                         "Error stopping recording"), Free)
                  /\ connected' = ConnectedAfterRecordingError(connected)
    /\ UNCHANGED <<usePi, error, frame, camera, camera_type,
                   running, frame_lock, backend, frames, ctype, rd, contT,
                   frame_data, calls, hist>>

\* toggle_recording, line 396-400: with self.recording_lock: call
\* stop_recording or start_recording while holding it
TgAcq(c) ==
    /\ pc[c] = "tg_acq"
    /\ recording_lock = Free
    /\ recording_lock' = c
    /\ ctx' = [ctx EXCEPT ![c] = "toggle"]
    /\ Goto(c, IF is_recording THEN "st_check" ELSE "sr_check")
    /\ UNCHANGED <<usePi, connected, error, frame, camera, camera_type,
                   is_recording, recording_filename, encoder, running,
                   frame_lock, backend, frames, ctype, rd, contT, frame_data,
                   calls, ret, hist>>

\* get_status reads the recording fields without taking the lock
StatusWithoutLock(l) == TRUE

\* line 404: with self.recording_lock (entered when no thread holds it)
StatusLockEntered(l) == l = Free

\* get_status, line 404-408: the recording fields, read under the lock
GsRec(c) ==
    /\ pc[c] = "gs_rec"
    /\ StatusLockEntered(recording_lock)
    /\ ret' = [ret EXCEPT ![c].st.is_recording = is_recording,
                          ![c].st.filename = recording_filename]
    /\ Goto(c, "gs_err")
    /\ UNCHANGED <<prog, backend, frames, ctype, rd, contT, frame_data, ctx,
                   calls, hist>>

\* line 410: current_error = self.error
GsErr(c) ==
    /\ pc[c] = "gs_err"
    /\ ret' = [ret EXCEPT ![c].st.error = error]
    /\ Goto(c, "gs_conn")
    /\ UNCHANGED <<prog, backend, frames, ctype, rd, contT, frame_data, ctx,
                   calls, hist>>

\* line 412: 'connected': self.connected
GsConn(c) ==
    /\ pc[c] = "gs_conn"
    /\ ret' = [ret EXCEPT ![c].st.connected = connected]
    /\ Goto(c, "gs_type")
    /\ UNCHANGED <<prog, backend, frames, ctype, rd, contT, frame_data, ctx,
                   calls, hist>>

\* line 413: 'camera_type': self.camera_type if self.connected else 'Unknown'
GsType(c) ==
    /\ pc[c] = "gs_type"
    /\ Return(c, [ret[c] EXCEPT !.op = "get_status", !.ok = TRUE,
                     !.st.camera_type =
                         IF connected THEN camera_type ELSE Unknown])
    /\ UNCHANGED <<prog, backend, frames, ctype, rd, contT, frame_data, ctx,
                   calls, hist>>

\* cleanup, line 449: self.running = False
CuRun(c) ==
    /\ pc[c] = "cu_run"
    /\ running' = FALSE
    /\ Goto(c, "cu_rec")
    /\ UNCHANGED <<usePi, connected, error, frame, camera, camera_type,
                   is_recording, recording_filename, encoder, recording_lock,
                   frame_lock, backend, frames, ctype, rd, contT, frame_data,
                   callerv, hist>>

\* line 450-451: if self.is_recording: self.stop_recording()
CuRec(c) ==
    /\ pc[c] = "cu_rec"
    /\ IF is_recording
          THEN /\ ctx' = [ctx EXCEPT ![c] = "cleanup"]
               /\ Goto(c, "st_check")
          ELSE /\ Goto(c, "cu_join")
               /\ UNCHANGED ctx
    /\ UNCHANGED <<prog, backend, frames, ctype, rd, contT, frame_data, calls,
                   ret, hist>>

\* the capture thread's steps that wait on the backend or sleep (Picamera2(),
\* configure/start, VideoCapture(), the 1 s sleep and test read, a frame read
\* in flight, close()/release()): where it can outlast join(timeout=2.0)
BlockingPcs == {"pi_new", "pi_config", "wc_open0", "wc_open1", "wc_test",
                "cap_end", "clk_close"}

\* line 452-456: self.thread.join(timeout=2.0) returns when the thread has
\* finished, or on the timeout while the thread is still blocked
CuJoin(c) ==
    /\ pc[c] = "cu_join"
    /\ pc["T"] = "done" \/ pc["T"] \in BlockingPcs
    /\ ctx' = [ctx EXCEPT ![c] = "none"]
    /\ Goto(c, "clk_check")
    /\ UNCHANGED <<prog, backend, frames, ctype, rd, contT, frame_data, calls,
                   ret, hist>>

\* line 461: cleanup returns
CuRet(c) ==
    /\ pc[c] = "cu_ret"
    /\ cleanupReturned' = TRUE
    /\ Return(c, [NoRet EXCEPT !.op = "cleanup", !.ok = TRUE])
    /\ UNCHANGED <<prog, backend, frames, ctype, rd, contT, frame_data, ctx,
                   calls, openAttempts, opensAtFail, initFailed, published,
                   opensAfterCleanup, threadFailed>>

\* the first step of each public method
Entry == [get_frame |-> "gf_acq", capture_still |-> "cs_check",
          start_recording |-> "sr_check", stop_recording |-> "st_check",
          toggle_recording |-> "tg_acq", get_status |-> "gs_rec",
          cleanup |-> "cu_run"]

\* cleanup() belongs to process teardown on the main thread (spec section 6);
\* every other method is called from the main loop and the web handlers
Methods(c) == IF c = "main" THEN DOMAIN Entry ELSE DOMAIN Entry \ {"cleanup"}

\* the newest frame the caller has been given so far (main.py line 97,
\* web_camera.py line 899: each loop iteration replaces its frame)
LastSeen(r) == IF r.op = "get_frame" /\ r.ok THEN r.fr[1] ELSE r.prev

\* a caller thread calls a public method
Call(c) ==
    /\ pc[c] = "idle"
    /\ calls[c] < (IF c = "main" THEN MaxMainCalls ELSE MaxWebCalls)
    /\ \E m \in Methods(c) : Goto(c, Entry[m])
    /\ calls' = [calls EXCEPT ![c] = @ + 1]
    /\ ret' = [ret EXCEPT ![c] = [NoRet EXCEPT !.prev = LastSeen(ret[c])]]
    /\ UNCHANGED <<prog, backend, frames, ctype, rd, contT, frame_data, ctx,
                   hist>>

CallerStep(c) ==
    \/ Call(c)
    \/ GfAcq(c) \/ GfCopy(c)
    \/ CsCheck(c) \/ CsBegin(c) \/ CsEnd(c)
    \/ SrCheck(c) \/ SrAcq(c) \/ SrBody(c)
    \/ StCheck(c) \/ StAcq(c) \/ StBody(c)
    \/ TgAcq(c)
    \/ GsRec(c) \/ GsErr(c) \/ GsConn(c) \/ GsType(c)
    \/ CuRun(c) \/ CuRec(c) \/ CuJoin(c) \/ CuRet(c)
    \/ CleanupCameraObject(c)

CallerNext == \E c \in Callers : CallerStep(c)

\* main.py line 57-60 and 114-127: a quit request, KeyboardInterrupt or any
\* exception ends the main loop; the finally block stops the web server, the
\* servo manager and pygame, and calls no CameraManager method
MainExit ==
    /\ pc["main"] = "idle"
    /\ Goto("main", "exited")
    /\ UNCHANGED <<prog, backend, frames, ctype, rd, contT, frame_data,
                   callerv, hist>>

Next == CameraThread \/ CallerNext \/ MainExit

Spec == Init /\ [][Next]_vars

\* ------------------------------------------------------------ pixel formats
\* line 181-182 and 285-287: the format of the array a preview read returns
\* (Pi lores stream: planar YUV420; cv2.VideoCapture.read: BGR)
LoresFormat(t) == IF t = PiCamera THEN "YUV420" ELSE "BGR"

\* cv2.cvtColor(src, code) on the format tag: RGB2BGR swaps the first and the
\* third channel of whatever three-channel array it is given
CvtColor(fmt, code) ==
    CASE code = "YUV420p_to_BGR" /\ fmt = "YUV420" -> "BGR"
      [] code = "RGB2BGR" /\ fmt = "RGB" -> "BGR"
      [] code = "RGB2BGR" /\ fmt = "BGR" -> "RGB"
      [] OTHER -> "invalid"

\* line 123-133: the frame the capture loop stores for a source of type t
BufferFormat(t) ==
    IF t = PiCamera THEN CvtColor(LoresFormat(t), "YUV420p_to_BGR")
                    ELSE LoresFormat(t)

\* web_camera.py line 902-917: the frames _generate_frames may hand to
\* cv2.imencode for a buffer frame of format fmt: converted with RGB2BGR for
\* the Pi camera (the frame itself if cv2 raises), the frame as it is otherwise
StreamFormats(t, fmt) ==
    IF t = PiCamera THEN {CvtColor(fmt, "RGB2BGR"), fmt} ELSE {fmt}

\* ------------------------------------------------------------------- claims
OpenHandles == {h \in Handles : hstate[h] = "open"}

\* the capture thread is in its last _cleanup_camera_object or beyond
ThreadExitPcs == {"clk_check", "clk_close", "clk_clear", "td_conn", "done"}

\* C1 (as claimed): once the capture thread has ended after a failed frame
\* read, a later backend open attempt has occurred (the loop reconnects).
C1_ReconnectAfterReadFailure ==
    (opensAtFail >= 0 /\ pc["T"] = "done") => openAttempts > opensAtFail

\* C1 (amended): after a failed frame read the capture thread only tears
\* down: it makes no further open attempt, and when it has ended no backend
\* handle is open, camera is None and connected is False.
C1_ReadFailureEndsCapture ==
    opensAtFail >= 0 =>
        /\ openAttempts = opensAtFail
        /\ pc["T"] \in ThreadExitPcs
        /\ contT = "td_conn"
        /\ pc["T"] = "done" =>
               (OpenHandles = {} /\ camera = None /\ ~connected)

C1_Witness ==
    /\ opensAtFail >= 0
    /\ pc["T"] = "done"
    /\ published # {}

\* C2 (as claimed): a failed initialisation is never a dead end: the capture
\* thread does not end after it.
C2_InitFailureNotDeadEnd == initFailed => pc["T"] # "done"

\* C2 (amended): after a failed initialisation the capture thread only runs
\* its cleanup and ends; it opens no backend again (one initialisation opens
\* at most MaxHandles camera objects), and the source is never connected.
C2_InitFailureEndsThread ==
    initFailed =>
        /\ pc["T"] \in ThreadExitPcs
        /\ contT = "done"
        /\ ~connected
        /\ frame = None
        /\ openAttempts <= MaxHandles

C2_Witness ==
    /\ initFailed
    /\ pc["T"] = "done"
    /\ running

\* C3: every value get_frame() has returned or is returning is None or equal
\* to one frame the capture loop published as a whole, whatever was published
\* since.
C3_NoTornFrame ==
    \A c \in Callers :
        (ret[c].op = "get_frame" /\ ~ret[c].isNone) => ret[c].fr \in published

C3_Witness ==
    \E c \in Callers :
        /\ ret[c].op = "get_frame"
        /\ ret[c].ok
        /\ frame # None
        /\ heap[frame] # ret[c].fr

\* C4: at most one backend camera handle is open in every reachable state.
C4_AtMostOneOpenHandle == Cardinality(OpenHandles) <= 1

C4_Witness ==
    /\ hstate[1] = "unopened"
    /\ closes[1] = 1
    /\ hstate[2] = "open"

\* C5 (as claimed): a start_recording() call that returns while a session is
\* active returns the 'Already recording.' failure and leaves is_recording,
\* recording_filename and encoder unchanged.
C5_AlreadyRecording ==
    [][\A c \in Callers :
          (is_recording /\ ctx[c] = "none" /\ pc[c] \in {"sr_check", "sr_acq"}
             /\ pc'[c] = "idle")
          => /\ ~ret'[c].ok
             /\ ret'[c].msg = "Already recording."
             /\ UNCHANGED <<is_recording, recording_filename, encoder>>]_vars

\* C6 (as claimed): a toggle_recording() call never blocks forever: no caller
\* inside toggle_recording waits for recording_lock while holding it itself.
C6_ToggleNeverSelfBlocks ==
    \A c \in Callers :
        ~(pc[c] \in {"sr_acq", "st_acq"} /\ recording_lock = c)

\* C7 (as claimed): once cleanup() has returned no backend handle is open,
\* and none has been opened since.
C7_NoHandleAfterCleanup ==
    cleanupReturned => (OpenHandles = {} /\ opensAfterCleanup = 0)

\* C8 (as claimed): the capture thread has left its loop or ended only when
\* running is False.
C8_ExitOnlyOnShutdown ==
    (initFailed \/ contT = "td_conn" \/ pc["T"] = "done") => ~running

\* C8 (amended): the capture thread leaves its loop or ends while running is
\* True only after a backend failure, which has left a message in error.
C8_ExitOnShutdownOrFailure ==
    ((initFailed \/ contT = "td_conn" \/ pc["T"] = "done") /\ running)
        => error # NoError

C8_Witness ==
    /\ pc["T"] = "done"
    /\ running
    /\ published # {}
    /\ error # NoError

\* C9 (as claimed): a recording session that is active when the capture
\* thread ends or when cleanup() returns is no longer active afterwards
\* (is_recording False, recording_filename None).
C9_NoSessionAfterShutdown ==
    [][(is_recording /\ (\/ (pc["T"] # "done" /\ pc'["T"] = "done")
                         \/ (~cleanupReturned /\ cleanupReturned')))
          => (~is_recording' /\ recording_filename' = None)]_vars

\* C10 (as claimed): no step of a caller thread changes camera, connected or
\* frame.
C10_CaptureThreadSoleWriter ==
    [][CallerNext => UNCHANGED <<camera, connected, frame>>]_vars


\* the steps of a cleanup() call: lines 446-461 with the calls it makes
InCleanup(c) ==
    \/ pc[c] \in {"cu_run", "cu_rec", "cu_join", "clk_check", "clk_close",
                  "clk_clear", "cu_ret"}
    \/ ctx[c] = "cleanup" /\ pc[c] \in {"st_check", "st_acq", "st_body"}

\* C11 (as claimed): no step of a cleanup() call made after an earlier
\* cleanup() has returned changes a CameraManager field or a backend object
\* (it issues no close()/release()).
C11_SecondCleanupNoOp ==
    [][\A c \in Callers :
          (cleanupReturned /\ InCleanup(c) /\ pc'[c] # pc[c])
          => UNCHANGED <<prog, backend>>]_vars

C13_WebcamStillFromBuffer ==
    [][\A c \in Callers :
          (pc[c] = "cs_check" /\ pc'[c] = "idle" /\ connected
             /\ camera # None /\ camera_type = Webcam)
          => (ret'[c].ok <=> frame # None)]_vars

\* C13 (amended): on a source that is not a Raspberry Pi Camera (a Webcam in
\* particular) capture_still() returns at once the failure 'Pi Camera not
\* connected or available for full-res capture.', whatever the frame buffer
\* holds, and changes no field, backend object or frame.
C13_WebcamStillUnavailable ==
    [][\A c \in Callers :
          (pc[c] = "cs_check" /\ pc'[c] # pc[c] /\ camera_type # PiCamera)
          => /\ pc'[c] = "idle"
             /\ ret'[c].op = "capture_still"
             /\ ~ret'[c].ok
             /\ ret'[c].msg =
                  "Pi Camera not connected or available for full-res capture."
             /\ UNCHANGED <<prog, backend, frames>>]_vars

C13_Witness ==
    \E c \in Callers :
        /\ ret[c].op = "capture_still"
        /\ ~ret[c].ok
        /\ connected
        /\ camera_type = Webcam
        /\ frame # None

\* C14: a capture_still() call that finds the frame buffer empty and no
\* connected Raspberry Pi Camera returns a failure pair in that step, leaves
\* connected, camera, frame, error, the recording fields and running
\* unchanged, and does not move the capture thread.
C14_StillOnEmptyBuffer ==
    [][\A c \in Callers :
          (pc[c] = "cs_check" /\ pc'[c] # pc[c] /\ frame = None
             /\ ~(connected /\ camera # None /\ camera_type = PiCamera))
          => /\ pc'[c] = "idle"
             /\ ret'[c].op = "capture_still"
             /\ ~ret'[c].ok
             /\ ret'[c].msg # ""
             /\ UNCHANGED <<connected, camera, frame, error, is_recording,
                            recording_filename, encoder, running>>
             /\ pc'["T"] = pc["T"]]_vars

C14_Witness ==
    \E c \in Callers :
        /\ ret[c].op = "capture_still"
        /\ ~ret[c].ok
        /\ frame = None
        /\ connected
        /\ pc["T"] \in {"loop", "cap_begin", "cap_end", "publish"}

\* C15: as long as the capture loop has published no frame, the frame buffer
\* is None, no get_frame() call is copying, and every get_frame() call has
\* returned None; this includes the runs whose initialisation failed.
C15_NoneBeforeFirstFrame ==
    published = {} =>
        /\ frame = None
        /\ \A c \in Callers :
              /\ pc[c] # "gf_copy"
              /\ ret[c].op = "get_frame" => ret[c].isNone

C15_Witness ==
    \E c \in Callers :
        /\ ret[c].op = "get_frame"
        /\ ret[c].isNone
        /\ initFailed
        /\ pc["T"] = "done"

\* the messages the capture thread stores when it handles a failure: lines
\* 97, 114, 145, 154, 208 and 267
ThreadErrors ==
    {"Pi camera initialization error", "Webcam initialization error",
     "AttributeError", "Camera disconnected unexpectedly.",
     ReadFailureError, "Critical Camera Error"}

C17_AlwaysAResultPair ==
    \A c \in Callers :
        /\ ret[c].op \in {"none"} \cup DOMAIN Entry
        /\ ret[c].op \in {"capture_still", "start_recording",
                          "stop_recording", "toggle_recording"}
           => IF ret[c].ok
                 THEN ret[c].file # None
                 ELSE ret[c].msg # "" /\ ret[c].file = None

C17_Witness ==
    \E c \in Callers :
        /\ ret[c].op = "start_recording"
        /\ ret[c].msg = "Failed to start H.264 recording"
        /\ camera = None

\* C18 (as claimed): a stop_recording() call that returns while no session
\* is active returns the failure 'Not currently recording.' and leaves
\* is_recording, recording_filename, encoder, connected and camera
\* unchanged.
C18_StopWhenIdleNotRecording ==
    [][\A c \in Callers :
          (~is_recording /\ pc[c] \in {"st_check", "st_acq"}
             /\ pc'[c] = "idle")
          => /\ ~ret'[c].ok
             /\ ret'[c].msg = "Not currently recording."
             /\ UNCHANGED <<is_recording, recording_filename, encoder,
                            connected, camera>>]_vars

\* C18 (amended): with no session active, stop_recording() returns a failure
\* pair and leaves is_recording, recording_filename, encoder, connected and
\* camera unchanged; the message is 'Not currently recording.' when its
\* guard found a connected Raspberry Pi Camera and 'Pi Camera not available
\* to stop recording.' otherwise.
C18_StopWhenIdleFails ==
    [][\A c \in Callers :
          (~is_recording /\ ctx[c] # "cleanup" /\ pc'[c] # pc[c]
             /\ \/ pc[c] = "st_acq"
                \/ pc[c] = "st_check" /\
                      ~(connected /\ camera # None /\ camera_type = PiCamera))
          => /\ pc'[c] = "idle"
             /\ ~ret'[c].ok
             /\ ret'[c].file = None
             /\ ret'[c].msg =
                  (IF pc[c] = "st_acq"
                      THEN "Not currently recording."
                      ELSE "Pi Camera not available to stop recording.")
             /\ UNCHANGED <<is_recording, recording_filename, encoder,
                            connected, camera>>]_vars

C18_Witness ==
    /\ ret["main"].op = "stop_recording"
    /\ ret["main"].msg = "Not currently recording."
    /\ ret["web"].op = "stop_recording"
    /\ ret["web"].msg = "Pi Camera not available to stop recording."

\* C19 (as claimed): on a connected source of either kind with no session
\* active, start_recording() passes its guard (it can fail only because a
\* session is active or the destination cannot be opened).
C19_StartOnAnyBackend ==
    [][\A c \in Callers :
          (connected /\ camera # None /\ camera_type \in {PiCamera, Webcam}
             /\ ~is_recording /\ pc[c] = "sr_check" /\ pc'[c] # pc[c])
          => pc'[c] = "sr_acq"]_vars

\* C19 (amended): recording exists on a Raspberry Pi Camera only. On any
\* other source start_recording() fails with 'Pi Camera not connected or
\* available for recording.' and changes no recording field; a
\* start_recording() that succeeds returns the path it stored in
\* recording_filename and makes the session active; an active session always
\* has a path; a stop_recording() that succeeds returns the path of the
\* session that was active (the path does not change while the session is
\* active) and ends it.
C19_RecordingOnPiCameraOnly ==
    /\ [](is_recording => (recording_filename # None /\ encoder))
    /\ [][(is_recording /\ is_recording')
             => recording_filename' = recording_filename]_vars
    /\ [][\A c \in Callers :
             pc'[c] # pc[c] =>
                /\ (pc[c] = "sr_check" /\ camera_type # PiCamera) =>
                      /\ pc'[c] = "idle"
                      /\ ~ret'[c].ok
                      /\ ret'[c].msg =
                           "Pi Camera not connected or available for recording."
                      /\ UNCHANGED <<is_recording, recording_filename, encoder>>
                /\ (pc[c] = "sr_body" /\ pc'[c] = "idle" /\ ret'[c].ok) =>
                      /\ ~is_recording /\ is_recording'
                      /\ ret'[c].file # None
                      /\ ret'[c].file = recording_filename'
                /\ (pc[c] = "st_body" /\ pc'[c] = "idle" /\ ret'[c].ok) =>
                      /\ is_recording /\ ~is_recording'
                      /\ ret'[c].file # None
                      /\ ret'[c].file = recording_filename
                      /\ recording_filename' = None]_vars

C19_Witness ==
    \E c \in Callers :
        /\ ret[c].op = "stop_recording"
        /\ ret[c].ok
        /\ ret[c].file # None
        /\ frame # None
        /\ connected

\* C20: the step in which start_recording() or stop_recording() runs its
\* backend call, and in particular the one in which that call raises, leaves
\* connected, camera, frame, error, running, the frame lock and the backend
\* objects unchanged and does not move the capture thread.
C20_RecordingFailureKeepsStreaming ==
    [][\A c \in Callers :
          (pc[c] \in {"sr_body", "st_body"} /\ pc'[c] # pc[c])
          => /\ UNCHANGED <<connected, camera, frame, error, running,
                            frame_lock, backend, frames>>
             /\ pc'["T"] = pc["T"]]_vars

C20_Witness ==
    \E c \in Callers :
        /\ ret[c].msg = "Failed to start H.264 recording"
        /\ connected
        /\ camera # None
        /\ frame # None
        /\ pc["T"] \in {"loop", "cap_begin", "cap_end", "publish", "pub_err"}

\* C21 (as stated): when index 0 opens but fails its read test, the source goes
\* on to index 1: an initialisation that failed on an opened index 0, with no
\* caller interfering, has probed index 1
C21_FailedTestFallsToNextIndex ==
    (~usePi /\ initFailed /\ hstate[1] \in {"open", "closed"}
        /\ \A c \in Callers : calls[c] = 0)
       => openAttempts = MaxHandles

\* C21 (amended): the webcam index selected is the lowest one that opens; the
\* read test is made on that index only, and when it fails the
\* initialisation fails: index 1 is probed only if index 0 did not open, and
\* a connected webcam is on the last index probed, which opened
C21_LowestOpenedIndexSelected ==
    /\ openAttempts = MaxHandles => hstate[1] = "unopened"
    /\ camera_type = Webcam => hstate[openAttempts] \in {"open", "closed"}
    /\ (~usePi /\ hstate[1] \in {"open", "closed"}) => openAttempts = 1

\* index 0 opened, its test read failed, the initialisation failed and index 1
\* was never probed
C21_Witness ==
    /\ ~usePi
    /\ initFailed
    /\ pc["T"] = "done"
    /\ hstate[1] = "closed"
    /\ openAttempts = 1
    /\ error = "Webcam initialization error"
    /\ \A c \in Callers : calls[c] = 0

\* C22: when the backend initialisation returns after a failure, close() or
\* release() has been called on every camera object it allocated
C22_FailedInitClosesObject ==
    (pc["T"] = "init_end" /\ threadFailed)
       => \A h \in Handles : hstate[h] # "unalloc" => closes[h] > 0

\* C23: frames are published in capture order and a reader copies the frame
\* the buffer holds at that moment, so the capture sequence numbers of the
\* frames one reader gets from successive get_frame() calls never decrease
C23_ReaderNeverGoesBack ==
    /\ \A c \in Callers :
          (ret[c].op = "get_frame" /\ ret[c].ok) => ret[c].fr[1] >= ret[c].prev
    /\ \A c \in Callers :
          pc[c] = "gf_copy" =>
             /\ frame # None
             /\ ret[c].fr[1] = heap[frame][1]
             /\ ret[c].fr[1] >= ret[c].prev
    /\ frame # None => \A f \in published : f[1] <= heap[frame][1]

\* one reader got frame 1 and, on its next call, frame 2
C23_Witness ==
    \E c \in Callers :
        /\ ret[c].op = "get_frame"
        /\ ret[c].ok
        /\ ret[c].prev = 1
        /\ ret[c].fr = <<2, 2>>

\* C24: toggle_recording() on a connected Pi camera flips the recording state
\* and returns: once the call has passed the guard of start_recording or
\* stop_recording (the source is a connected Pi camera), it can go on to start
\* or stop the session
C24_ToggleFlipsRecordingState ==
    \A c \in Callers :
        (ctx[c] = "toggle" /\ pc[c] \in {"sr_acq", "st_acq"})
           => ENABLED (SrAcq(c) \/ StAcq(c))

\* C25: a stop_recording() call made while a session is active ends it: when
\* the call returns, is_recording is False and recording_filename is None
C25_ExplicitStopEndsSession ==
    [][\A c \in Callers :
          (ctx[c] = "none" /\ is_recording
              /\ pc[c] \in {"st_check", "st_acq", "st_body"}
              /\ pc'[c] = "idle")
          => (~is_recording' /\ recording_filename' = None)]_vars

\* C26: after cleanup() has set the shutdown flag, a capture thread that has
\* left its loop and finished has closed the backend handle and set connected
\* to False
C26_ShutdownClosesHandle ==
    (~running /\ contT = "td_conn" /\ pc["T"] = "done")
       => (~connected /\ OpenHandles = {})

\* C27: on every exit path of main(), cleanup() has been invoked (and has
\* returned) before the process terminates
C27_CleanupOnEveryExit == pc["main"] = "exited" => cleanupReturned

\* C28: for every backend kind, each frame the MJPEG generator has got from
\* get_frame() reaches the JPEG encoder as BGR
C28_StreamedFrameIsBGR ==
    (ret["web"].op = "get_frame" /\ ret["web"].ok)
       => \A f \in StreamFormats(camera_type, BufferFormat(camera_type)) :
             f = "BGR"

\* C29: whenever get_status() reports connected True, a backend handle is
\* held (camera is not None) at the moment the flag is read; stated here for
\* the runs in which cleanup() has not been called, so that only the capture
\* thread's own teardown is involved
C29_ConnectedImpliesHandle ==
    [][\A c \in Callers :
          (running /\ pc[c] = "gs_conn" /\ pc'[c] = "gs_type"
              /\ ret'[c].st.connected)
          => camera # None]_vars

\* C30: no backend read is issued on a handle after close()/release() was
\* called on it: whenever capture_still() or the capture loop issues its read,
\* the camera object it is issued on has never been closed
C30_NoReadAfterClose ==
    [][\A a \in Actors :
          (/\ pc[a] \in {"cs_begin", "cap_begin"}
           /\ pc'[a] \in {"cs_end", "cap_end"})
          => closes[rd'[a]] = 0]_vars

\* C31: each opened backend handle is closed/released at most once: cleanup()
\* on the caller's thread and the capture thread's teardown never both issue
\* close()/release() on the same camera object
C31_HandleClosedOnce ==
    \A h \in Handles : hstate[h] \in {"open", "closed"} => closes[h] <= 1

\* C32: every status snapshot returned by get_status() is consistent:
\* camera_type is 'Unknown' if and only if connected is False in the snapshot
C32_SnapshotConsistent ==
    \A c \in Callers :
        ret[c].op = "get_status"
           => (ret[c].st.camera_type = Unknown <=> ~ret[c].st.connected)

\* C33: in every recording snapshot get_status() takes, is_recording is True
\* if and only if filename is set; the two fields agree whenever no thread
\* holds recording_lock, whatever start_recording() and stop_recording() calls
\* run concurrently and however they end
C33_RecordingSnapshotConsistent ==
    /\ \A c \in Callers :
          (ret[c].op = "get_status" \/ pc[c] \in {"gs_err", "gs_conn", "gs_type"})
             => (ret[c].st.is_recording <=> ret[c].st.filename # None)
    /\ recording_lock = Free => (is_recording <=> recording_filename # None)

\* a snapshot of an active session, taken by one caller after the other
\* caller's start_recording() succeeded
C33_Witness ==
    \E c, d \in Callers :
        /\ c # d
        /\ ret[c].op = "get_status"
        /\ ret[c].st.is_recording
        /\ ret[c].st.filename # None
        /\ ret[d].op = "start_recording"
        /\ ret[d].ok

\* C34: a start_recording() call that fails because the backend start call
\* throws leaves no session behind: at its return is_recording is False,
\* recording_filename is None and encoder is None; and a start_recording()
\* is rejected as 'Already recording.' only while a started session exists
C34_FailedStartLeavesNoSession ==
    [][\A c \in Callers :
          /\ (pc[c] = "sr_body" /\ pc'[c] = "idle" /\ ~ret'[c].ok)
                => /\ ~is_recording'
                   /\ recording_filename' = None
                   /\ ~encoder'
                   /\ recording_lock' = Free
          /\ (pc[c] = "sr_acq" /\ pc'[c] = "idle")
                => /\ ret'[c].msg = "Already recording."
                   /\ is_recording /\ encoder /\ recording_filename # None]_vars

\* one caller's start_recording() failed in the backend call, and the other
\* caller's start_recording() has started a session since
C34_Witness ==
    \E c, d \in Callers :
        /\ c # d
        /\ ret[c].op = "start_recording"
        /\ ret[c].msg = "Failed to start H.264 recording"
        /\ ret[d].op = "start_recording"
        /\ ret[d].ok
        /\ is_recording

\* C35: once a frame has been published the frame buffer is never empty
\* again: it holds a published frame in every later state, also after a
\* disconnect, after the capture thread has ended and after cleanup(); a
\* reader that has been given a frame is never given None afterwards
C35_BufferNeverCleared ==
    /\ published # {} => (frame # None /\ heap[frame] \in published)
    /\ \A c \in Callers :
          (ret[c].op = "get_frame" /\ ret[c].isNone) => ret[c].prev = 0

\* a reader copies the last published frame after the capture thread has
\* ended and cleanup() has returned
C35_Witness ==
    /\ pc["T"] = "done"
    /\ ~connected
    /\ camera = None
    /\ cleanupReturned
    /\ pc["web"] = "gf_copy"
    /\ rd["web"] = frame

\* C36: distinct successful captures never share a file name: two
\* capture_still() calls that both succeeded returned different paths
C36_DistinctCaptureNames ==
    \A c, d \in Callers :
        (/\ c # d
         /\ ret[c].op = "capture_still" /\ ret[c].ok
         /\ ret[d].op = "capture_still" /\ ret[d].ok)
        => ret[c].file # ret[d].file

=============================================================================
